---- MODULE Spec2Model ----
(***************************************************************************)
(* The read-state store of zenfeed-web (src/lib/stores/readStateStore.ts): *)
(* the in-memory read map, its two localStorage slots, the retry queue,    *)
(* and the asynchronous operations markRead, markUnread, sync, syncAll,    *)
(* the interval timer and reset.  JavaScript runs one handler at a time,   *)
(* so every action below is the code that runs between two awaits.         *)
(***************************************************************************)
EXTENDS Integers, Sequences, FiniteSets, Bags

\* const SYNC_INTERVAL = 30 * 60 * 1000 (milliseconds)
SYNC_INTERVAL == 30 * 60 * 1000

\* Bounds of the model: operations in flight at once, clock advances.
MaxTasks == 2
MaxTicks == 1
MaxLabels == 3

\* Item ids the operations are called with, and the amounts the clock jumps by.
Ids == {"a", "b"}
NoId == "-"
Jumps == {SYNC_INTERVAL, SYNC_INTERVAL + 1}

\* read_status values of the backend, and the outcomes of one request
\* ("error": fetch rejected, a non-2xx answer, or a body that is not JSON).
Statuses == {"read", "unread", "deleted"}
Responses == Statuses \cup {"error"}

VARIABLES
    now,                \* Date.now()
    timerDue,           \* the interval timer has a callback to run
    booted,             \* createReadItemsStore() has run
    currentMap,         \* the writable store's Map, entries in insertion order
    readItemsSlot,      \* localStorage[READ_ITEMS_STORAGE_KEY]
    syncTimestampSlot,  \* localStorage[SYNC_TIMESTAMP_KEY]
    syncQueue,          \* the Set syncQueue, in insertion order
    tasks,              \* the bag of async calls suspended at an await
    last,               \* history: the handler that ran last
    want,               \* history: per id, what the latest mark asked for
    lastGoodSync,       \* history: start of the last sync() whose pull succeeded
    lastAttempt,        \* history: per id, how its last answered request ended
    owed,               \* history: ids queued and not pulled successfully since
    feed,               \* the FeedVO getFeedItemId is called with
    feedItemId          \* what getFeedItemId returned last

vars == <<now, timerDue, booted, currentMap, readItemsSlot, syncTimestampSlot,
          syncQueue, tasks, last, want, lastGoodSync, lastAttempt, owed,
          feed, feedItemId>>

----------------------------------------------------------------------------
\* Text of the two localStorage slots.

\* Number.prototype.toString: the decimal digits of a non-negative integer.
RECURSIVE NumberToString(_)
NumberToString(n) == IF n < 10 THEN <<n>> ELSE Append(NumberToString(n \div 10), n % 10)

\* Number(text) of a string of decimal digits.
RECURSIVE Number(_)
Number(s) ==
    IF Len(s) = 0 THEN 0
    ELSE 10 * Number(SubSeq(s, 1, Len(s) - 1)) + s[Len(s)]

\* localStorage.getItem gives null for a key that was never set or was removed.
NoTimestamp == [present |-> FALSE, text |-> <<>>]
NoItems == [present |-> FALSE, kind |-> "null", items |-> <<>>]

\* A stored read-items text is "" ("empty"), text JSON.parse rejects
\* ("garbage"), JSON that is not an array ("scalar"), or a JSON array; an
\* element of the array is modelled by the tuple of its members, a tuple of
\* any length but 2 standing for every element that is not a 2-element array.
StoredText(kind, items) == [present |-> TRUE, kind |-> kind, items |-> items]

\* map.has(itemId)
Has(map, itemId) == \E i \in DOMAIN map : map[i][1] = itemId

\* map.set(key, value): a present key keeps its place, a new one goes last.
MapSet(map, key, value) ==
    IF Has(map, key)
    THEN [i \in DOMAIN map |-> IF map[i][1] = key THEN <<key, value>> ELSE map[i]]
    ELSE Append(map, <<key, value>>)

\* map.delete(key)
MapDelete(map, key) == SelectSeq(map, LAMBDA e : e[1] # key)

\* new Map(pairs)
RECURSIVE NewMap(_)
NewMap(pairs) ==
    IF Len(pairs) = 0 THEN <<>>
    ELSE LET p == pairs[Len(pairs)]
         IN MapSet(NewMap(SubSeq(pairs, 1, Len(pairs) - 1)), p[1], p[2])

\* The timestamp stored for itemId (-1 when it has none).
ReadAt(map, itemId) ==
    IF Has(map, itemId)
    THEN (CHOOSE e \in {map[i] : i \in DOMAIN map} : e[1] = itemId)[2]
    ELSE -1

\* Array.isArray(parsedArray) && parsedArray.every(pair => Array.isArray(pair) && pair.length === 2)
IsPairArray(slot) ==
    /\ slot.kind = "array"
    /\ \A i \in DOMAIN slot.items : Len(slot.items[i]) = 2

\* `if (storedData)`: null and the empty string are both falsy.
Truthy(slot) == slot.present /\ slot.kind # "empty"

\* JSON.stringify(Array.from(map.entries())) written to the read-items slot.
\* localStorage.setItem is taken to succeed: a write that throws (quota) is
\* caught and logged by the code and would leave the slot as it was.
SaveToLocalStorage(map) == StoredText("array", map)

----------------------------------------------------------------------------
\* getFeedItemId (feedUtils).  A string is the sequence of its UTF-16 code
\* units; a FeedVO is [id, labels], id = Undefined when the backend gave none
\* and labels the key/value pairs of the object in insertion order.

Undefined == -1

\* '=' and '&'
EqualsSign == 61
Ampersand == 38

\* String comparison by code units, as Array.prototype.sort() without a
\* comparator orders strings.
RECURSIVE StringLess(_, _)
StringLess(s, t) ==
    IF t = <<>> THEN FALSE
    ELSE IF s = <<>> THEN TRUE
    ELSE IF Head(s) # Head(t) THEN Head(s) < Head(t)
    ELSE StringLess(Tail(s), Tail(t))

\* Object.keys(labels)
ObjectKeys(labels) == [i \in DOMAIN labels |-> labels[i][1]]

\* labels[key]
LabelOf(labels, key) ==
    (CHOOSE e \in {labels[i] : i \in DOMAIN labels} : e[1] = key)[2]

\* keys.sort()
RECURSIVE SortStrings(_)
SortStrings(keys) ==
    IF keys = <<>> THEN <<>>
    ELSE LET least == CHOOSE i \in DOMAIN keys :
                          \A j \in DOMAIN keys : ~StringLess(keys[j], keys[i])
         IN <<keys[least]>> \o
            SortStrings([i \in 1..(Len(keys) - 1) |->
                            IF i < least THEN keys[i] ELSE keys[i + 1]])

\* keys.map(key => `${key}=${labels[key]}`).join("&")
RECURSIVE JoinPairs(_, _)
JoinPairs(keys, labels) ==
    IF keys = <<>> THEN <<>>
    ELSE LET pair == Head(keys) \o <<EqualsSign>> \o LabelOf(labels, Head(keys))
         IN IF Len(keys) = 1 THEN pair
            ELSE pair \o <<Ampersand>> \o JoinPairs(Tail(keys), labels)

\* simpleHash (hashUtils): a deterministic string hash, here the
\* multiply-by-31 hash over the code units, kept to 16 bits.
RECURSIVE SimpleHash(_)
SimpleHash(str) ==
    IF str = <<>> THEN 0
    ELSE (31 * SimpleHash(SubSeq(str, 1, Len(str) - 1)) + str[Len(str)]) % (2 ^ 16)

\* getFeedItemId that joins the keys in insertion order.
GetFeedItemIdUnsorted(f) ==
    IF f.id # Undefined THEN NumberToString(f.id)
    ELSE NumberToString(SimpleHash(JoinPairs(ObjectKeys(f.labels), f.labels)))

\* getFeedItemId(feed)
GetFeedItemId(f) ==
    IF f.id # Undefined THEN NumberToString(f.id)
    ELSE LET sortedKeys == SortStrings(ObjectKeys(f.labels))
             combinedString == JoinPairs(sortedKeys, f.labels)
         IN NumberToString(SimpleHash(combinedString))

\* The feed items getFeedItemId is called with: with and without an id, up
\* to MaxLabels labels of distinct keys.
LabelKeys == {<<97>>, <<97, 98>>, <<98>>}
LabelValues == {<<>>, <<120>>}
FeedIds == {Undefined, 0, 42}

Labelings ==
    { l \in UNION {[1..n -> LabelKeys \X LabelValues] : n \in 0..MaxLabels} :
        \A i, j \in DOMAIN l : i # j => l[i][1] # l[j][1] }

Feeds == [id : FeedIds, labels : Labelings]

NoFeed == [id |-> Undefined, labels |-> <<>>]
NotCalled == <<>>

----------------------------------------------------------------------------
\* Suspended calls.  A markRead/markUnread task awaits its POST; a sync task
\* awaits its GET; a drain task (processSyncQueue) awaits the GET of `id`, or
\* with id = NoId is about to resume its loop over `items`.
\* History fields: start (when sync() was called) and stale (a mark of the
\* same id has been issued since the request was).
Task(op, id, items, start) ==
    [op |-> op, id |-> id, items |-> items, start |-> start, stale |-> FALSE]

\* History: the handler that ran, the id it was about, and how the backend
\* answered the request it had awaited.
Event(op, id, status) == [op |-> op, id |-> id, status |-> status]

InFlight == BagToSet(tasks)

Suspend(bag, t) == bag (+) SetToBag({t})

Resume(bag, t) == bag (-) SetToBag({t})

Range(s) == {s[i] : i \in DOMAIN s}

InQueue(itemId) == itemId \in Range(syncQueue)

\* syncQueue.add(itemId)
QueueAdd(queue, itemId) ==
    IF itemId \in Range(queue) THEN queue ELSE Append(queue, itemId)

\* History: a later mark of itemId makes the requests in flight for it (its
\* POSTs and its GETs) stale.
Superseded(bag, itemId) ==
    LET Hit(t) == t.id = itemId
        Stale(t) == IF Hit(t) THEN [t EXCEPT !.stale = TRUE] ELSE t
        Fresh(t) == [t EXCEPT !.stale = FALSE]
        Count(t) == IF t \in DOMAIN bag THEN bag[t] ELSE 0
    IN [t \in {Stale(u) : u \in DOMAIN bag} |->
           IF Hit(t) THEN Count(t) + Count(Fresh(t)) ELSE Count(t)]

----------------------------------------------------------------------------
\* The stored read-items texts a store may be constructed over.
StoredInputs ==
    { NoItems,
      StoredText("empty", <<>>),
      StoredText("garbage", <<>>),
      StoredText("scalar", <<>>),
      StoredText("array", <<>>),
      StoredText("array", << <<"a", 0>> >>),
      StoredText("array", << <<"a">> >>),
      StoredText("array", << <<"a", 0>>, <<"b", 0, 0>> >>) }

\* The stored read-items texts a store is constructed over in normal use: none
\* on a first visit, afterwards what saveToLocalStorage wrote.
SavedInputs == { NoItems, StoredText("array", << <<"a", 0>> >>) }

InitOver(inputs) ==
    /\ now = 0
    /\ timerDue = FALSE
    /\ booted = FALSE
    /\ currentMap = <<>>
    /\ readItemsSlot \in inputs
    /\ syncTimestampSlot = NoTimestamp
    /\ syncQueue = <<>>
    /\ tasks = EmptyBag
    /\ last = Event("init", NoId, "-")
    /\ want = [i \in Ids |-> "none"]
    /\ lastGoodSync = -1
    /\ lastAttempt = [i \in Ids |-> "none"]
    /\ owed = {}
    /\ feed = NoFeed
    /\ feedItemId = NotCalled

Init == InitOver(SavedInputs)

InitLoad == InitOver(StoredInputs)

\* createReadItemsStore, lines 44-65: load the map from localStorage.
LoadedMap(slot) ==
    IF Truthy(slot) /\ IsPairArray(slot) THEN NewMap(slot.items) ELSE <<>>

LoadedSlot(slot) ==
    IF Truthy(slot) /\ ~IsPairArray(slot) THEN NoItems ELSE slot

CreateReadItemsStore ==
    /\ ~booted
    /\ booted' = TRUE
    /\ currentMap' = LoadedMap(readItemsSlot)
    /\ readItemsSlot' = LoadedSlot(readItemsSlot)
    /\ timerDue' = FALSE
    /\ last' = Event("load", NoId, "-")
    /\ UNCHANGED <<now, syncTimestampSlot, syncQueue, tasks>>

\* The clock advances between handlers; after SYNC_INTERVAL the timer is due.
TickCount == now \div SYNC_INTERVAL

Tick ==
    /\ booted
    /\ TickCount < MaxTicks
    /\ \E d \in Jumps :
          /\ now' = now + d
          /\ timerDue' = (timerDue \/ d >= SYNC_INTERVAL)
    /\ last' = Event("tick", NoId, "-")
    /\ UNCHANGED <<booted, currentMap, readItemsSlot, syncTimestampSlot,
                   syncQueue, tasks>>

\* updateLocalState that stamps an id again when it is already read.
UpdatedMapRestamps(map, itemId, isRead) ==
    IF isRead THEN MapSet(map, itemId, now)
    ELSE IF Has(map, itemId) THEN MapDelete(map, itemId)
    ELSE map

\* updateLocalState(itemId, isRead): the new map, saved whole.
UpdatedMap(map, itemId, isRead) ==
    IF isRead /\ ~Has(map, itemId) THEN MapSet(map, itemId, now)
    ELSE IF ~isRead /\ Has(map, itemId) THEN MapDelete(map, itemId)
    ELSE map

UpdateLocalState(itemId, isRead) ==
    /\ currentMap' = UpdatedMap(currentMap, itemId, isRead)
    /\ readItemsSlot' = SaveToLocalStorage(currentMap')

\* shouldSync() with the comparison turned round.
ShouldSyncInverted(lastSync) ==
    IF ~lastSync.present \/ lastSync.text = <<>> THEN TRUE
    ELSE now - Number(lastSync.text) < SYNC_INTERVAL

\* shouldSync(), lastSync being localStorage.getItem(SYNC_TIMESTAMP_KEY)
ShouldSync(lastSync) ==
    IF ~lastSync.present \/ lastSync.text = <<>> THEN TRUE
    ELSE now - Number(lastSync.text) > SYNC_INTERVAL

\* updateSyncTimestamp()
UpdateSyncTimestamp ==
    syncTimestampSlot' = [present |-> TRUE, text |-> NumberToString(now)]

\* markRead that issues the POST without the optimistic update.
MarkReadAfterPush(itemId) ==
    LET t == Task("markRead", itemId, <<>>, 0)
    IN /\ booted
       /\ BagCardinality(tasks) < MaxTasks
       /\ tasks' = Suspend(Superseded(tasks, itemId), t)
       /\ last' = Event("markRead", itemId, "-")
       /\ UNCHANGED <<now, timerDue, booted, currentMap, readItemsSlot,
                      syncTimestampSlot, syncQueue>>

\* markRead(itemId) up to its await: the optimistic update, then the POST.
MarkRead(itemId) ==
    LET t == Task("markRead", itemId, <<>>, 0)
    IN /\ booted
       /\ BagCardinality(tasks) < MaxTasks
       /\ UpdateLocalState(itemId, TRUE)
       /\ tasks' = Suspend(Superseded(tasks, itemId), t)
       /\ last' = Event("markRead", itemId, "-")
       /\ UNCHANGED <<now, timerDue, booted, syncTimestampSlot, syncQueue>>

\* markUnread(itemId) up to its await.
MarkUnread(itemId) ==
    LET t == Task("markUnread", itemId, <<>>, 0)
    IN /\ booted
       /\ BagCardinality(tasks) < MaxTasks
       /\ UpdateLocalState(itemId, FALSE)
       /\ tasks' = Suspend(Superseded(tasks, itemId), t)
       /\ last' = Event("markUnread", itemId, "-")
       /\ UNCHANGED <<now, timerDue, booted, syncTimestampSlot, syncQueue>>

\* markRead after its await, reverting the optimistic update on a failure too.
MarkReadDoneRevertOnError(t, resp) ==
    /\ t.op = "markRead"
    /\ tasks' = Resume(tasks, t)
    /\ IF resp # "read"
       THEN UpdateLocalState(t.id, FALSE)
       ELSE UNCHANGED <<currentMap, readItemsSlot>>
    /\ syncQueue' = IF resp = "error" THEN QueueAdd(syncQueue, t.id) ELSE syncQueue
    /\ last' = Event("markReadDone", t.id, resp)
    /\ UNCHANGED <<now, timerDue, booted, syncTimestampSlot>>

\* markRead after its await, applying the mark again when it is confirmed.
MarkReadDoneReappliesConfirmed(t, resp) ==
    /\ t.op = "markRead"
    /\ tasks' = Resume(tasks, t)
    /\ IF resp = "error"
       THEN /\ syncQueue' = QueueAdd(syncQueue, t.id)
            /\ UNCHANGED <<currentMap, readItemsSlot>>
       ELSE /\ UpdateLocalState(t.id, resp = "read")
            /\ UNCHANGED syncQueue
    /\ last' = Event("markReadDone", t.id, resp)
    /\ UNCHANGED <<now, timerDue, booted, syncTimestampSlot>>

\* markRead after its await (lines 161-169): the POST of task t answered resp.
MarkReadDone(t, resp) ==
    /\ t.op = "markRead"
    /\ tasks' = Resume(tasks, t)
    /\ IF resp = "error"
       THEN /\ syncQueue' = QueueAdd(syncQueue, t.id)
            /\ UNCHANGED <<currentMap, readItemsSlot>>
       ELSE /\ IF resp # "read"
               THEN UpdateLocalState(t.id, FALSE)
               ELSE UNCHANGED <<currentMap, readItemsSlot>>
            /\ UNCHANGED syncQueue
    /\ last' = Event("markReadDone", t.id, resp)
    /\ UNCHANGED <<now, timerDue, booted, syncTimestampSlot>>

\* markUnread after its await, queueing a retry for a rejected push too.
MarkUnreadDoneQueuesRejected(t, resp) ==
    /\ t.op = "markUnread"
    /\ tasks' = Resume(tasks, t)
    /\ IF resp # "unread" /\ resp # "error"
       THEN UpdateLocalState(t.id, TRUE)
       ELSE UNCHANGED <<currentMap, readItemsSlot>>
    /\ syncQueue' = IF resp # "unread" THEN QueueAdd(syncQueue, t.id) ELSE syncQueue
    /\ last' = Event("markUnreadDone", t.id, resp)
    /\ UNCHANGED <<now, timerDue, booted, syncTimestampSlot>>

\* markUnread after its await, with markRead's test `status !== 'read'`.
MarkUnreadDoneTestsRead(t, resp) ==
    /\ t.op = "markUnread"
    /\ tasks' = Resume(tasks, t)
    /\ IF resp = "error"
       THEN /\ syncQueue' = QueueAdd(syncQueue, t.id)
            /\ UNCHANGED <<currentMap, readItemsSlot>>
       ELSE /\ IF resp # "read"
               THEN UpdateLocalState(t.id, TRUE)
               ELSE UNCHANGED <<currentMap, readItemsSlot>>
            /\ UNCHANGED syncQueue
    /\ last' = Event("markUnreadDone", t.id, resp)
    /\ UNCHANGED <<now, timerDue, booted, syncTimestampSlot>>

\* markUnread after its await (lines 180-188).
MarkUnreadDone(t, resp) ==
    /\ t.op = "markUnread"
    /\ tasks' = Resume(tasks, t)
    /\ IF resp = "error"
       THEN /\ syncQueue' = QueueAdd(syncQueue, t.id)
            /\ UNCHANGED <<currentMap, readItemsSlot>>
       ELSE /\ IF resp # "unread"
               THEN UpdateLocalState(t.id, TRUE)
               ELSE UNCHANGED <<currentMap, readItemsSlot>>
            /\ UNCHANGED syncQueue
    /\ last' = Event("markUnreadDone", t.id, resp)
    /\ UNCHANGED <<now, timerDue, booted, syncTimestampSlot>>

\* sync(itemId) up to its await: syncWithBackend returns at once when
\* shouldSync() is false, and otherwise issues the GET.
Sync(itemId) ==
    LET t == Task("sync", itemId, <<>>, now)
    IN /\ booted
       /\ IF ShouldSync(syncTimestampSlot)
          THEN /\ BagCardinality(tasks) < MaxTasks
               /\ tasks' = Suspend(tasks, t)
          ELSE UNCHANGED tasks
       /\ last' = Event("sync", itemId, "-")
       /\ UNCHANGED <<now, timerDue, booted, currentMap, readItemsSlot,
                      syncTimestampSlot, syncQueue>>

\* processSyncQueue's loop from the head of `items` to its next await, the
\* running drain added to `bag`.  syncWithBackend(head) issues the GET when
\* shouldSync() holds; when it does not, it returns at once, for the head and
\* (nothing changing between two turns that run in consecutive microtasks)
\* for every item after it, and the loop ends.
DrainFrom(bag, items, lastSync) ==
    IF items # <<>> /\ ShouldSync(lastSync)
    THEN Suspend(bag, Task("drain", Head(items), Tail(items), 0))
    ELSE bag

\* processSyncQueue() up to its first await: snapshot, clear, loop.
ProcessSyncQueue(caller) ==
    LET itemsToSync == syncQueue
    IN /\ itemsToSync # <<>> => BagCardinality(tasks) < MaxTasks
       /\ syncQueue' = <<>>
       /\ tasks' = DrainFrom(tasks, itemsToSync, syncTimestampSlot)
       /\ last' = Event(caller, NoId, "-")
       /\ UNCHANGED <<now, booted, currentMap, readItemsSlot,
                      syncTimestampSlot>>

\* setInterval(processSyncQueue, SYNC_INTERVAL)
TimerFire ==
    /\ booted
    /\ timerDue
    /\ timerDue' = FALSE
    /\ ProcessSyncQueue("timer")

\* syncAll()
SyncAll ==
    /\ booted
    /\ UNCHANGED timerDue
    /\ ProcessSyncQueue("syncAll")

\* syncWithBackend after its await, applying only the status 'read'.
SyncWithBackendDoneReadOnly(t, resp) ==
    /\ t.op \in {"sync", "drain"}
    /\ IF resp = "error"
       THEN /\ syncQueue' = QueueAdd(syncQueue, t.id)
            /\ UNCHANGED <<currentMap, readItemsSlot, syncTimestampSlot>>
       ELSE /\ IF resp = "read" THEN UpdateLocalState(t.id, TRUE)
               ELSE UNCHANGED <<currentMap, readItemsSlot>>
            /\ UpdateSyncTimestamp
            /\ UNCHANGED syncQueue
    /\ tasks' = DrainFrom(Resume(tasks, t), t.items, syncTimestampSlot')
    /\ last' = Event(IF t.op = "sync" THEN "syncDone" ELSE "drainDone",
                     t.id, resp)
    /\ UNCHANGED <<now, timerDue, booted>>

\* syncWithBackend after its await (lines 116-127): the GET of task t
\* answered resp; a drain then goes on with its loop.
SyncWithBackendDone(t, resp) ==
    /\ t.op \in {"sync", "drain"}
    /\ IF resp = "error"
       THEN /\ syncQueue' = QueueAdd(syncQueue, t.id)
            /\ UNCHANGED <<currentMap, readItemsSlot, syncTimestampSlot>>
       ELSE /\ IF resp = "read" THEN UpdateLocalState(t.id, TRUE)
               ELSE IF resp = "unread" THEN UpdateLocalState(t.id, FALSE)
               ELSE UNCHANGED <<currentMap, readItemsSlot>>
            /\ UpdateSyncTimestamp
            /\ UNCHANGED syncQueue
    /\ tasks' = DrainFrom(Resume(tasks, t), t.items, syncTimestampSlot')
    /\ last' = Event(IF t.op = "sync" THEN "syncDone" ELSE "drainDone",
                     t.id, resp)
    /\ UNCHANGED <<now, timerDue, booted>>

\* reset() that leaves SYNC_TIMESTAMP_KEY in localStorage.
ResetKeepsTimestamp ==
    /\ booted
    /\ currentMap' = <<>>
    /\ readItemsSlot' = NoItems
    /\ syncQueue' = <<>>
    /\ last' = Event("reset", NoId, "-")
    /\ UNCHANGED <<now, timerDue, booted, tasks, syncTimestampSlot>>

\* reset()
Reset ==
    /\ booted
    /\ currentMap' = <<>>
    /\ readItemsSlot' = NoItems
    /\ syncTimestampSlot' = NoTimestamp
    /\ syncQueue' = <<>>
    /\ last' = Event("reset", NoId, "-")
    /\ UNCHANGED <<now, timerDue, booted, tasks>>

----------------------------------------------------------------------------
\* History variables, written from the handler that ran (last') and the task
\* it resumed.
Resumed == CHOOSE t \in InFlight : CopiesIn(t, tasks') < CopiesIn(t, tasks)

\* Per id, the status its latest mark asked for, while the id's history is
\* one of marks whose pushes were all answered and whose latest push was
\* confirmed; "void" once it is not (a push failed, the latest push was
\* answered with another status, a pull of the id was handled, reset ran).
MarkHistory ==
    LET e == last'
        Void(ids) == [i \in Ids |-> IF i \in ids THEN "void" ELSE want[i]]
        Asked(op) == IF op \in {"markRead", "markReadDone"} THEN "read" ELSE "unread"
    IN want' =
         IF e.op \in {"markRead", "markUnread"}
         THEN [want EXCEPT ![e.id] = IF @ = "void" THEN "void" ELSE Asked(e.op)]
         ELSE IF e.op \in {"markReadDone", "markUnreadDone"}
         THEN IF e.status = "error" \/ (e.status # Asked(e.op) /\ ~Resumed.stale)
              THEN Void({e.id}) ELSE want
         ELSE IF e.op \in {"syncDone", "drainDone"} THEN Void({e.id})
         ELSE IF e.op = "reset" THEN Void(Ids)
         ELSE want

\* The latest start of a sync() call whose GET was answered (forgotten when
\* reset runs).
SyncHistory ==
    LET e == last'
    IN lastGoodSync' =
            IF e.op = "reset" THEN -1
            ELSE IF e.op = "syncDone" /\ e.status # "error"
                    /\ Resumed.start > lastGoodSync
            THEN Resumed.start ELSE lastGoodSync

\* Per id, how the request for it that was answered last ended: "ok" (a GET
\* answered, or a POST answered with the status asked for) or "failed" (no
\* answer, not a 2xx one, or a POST answered with another status); forgotten
\* when reset runs.
AttemptHistory ==
    LET e == last'
        Asked == IF e.op = "markReadDone" THEN "read" ELSE "unread"
        End == IF e.status = "error" THEN "failed"
               ELSE IF e.op \in {"markReadDone", "markUnreadDone"} /\ e.status # Asked
               THEN "failed" ELSE "ok"
    IN lastAttempt' =
         IF e.op \in {"markReadDone", "markUnreadDone", "syncDone", "drainDone"}
         THEN [lastAttempt EXCEPT ![e.id] = End]
         ELSE IF e.op = "reset" THEN [i \in Ids |-> "none"]
         ELSE lastAttempt

\* The ids that were added to syncQueue and for which no GET has been
\* answered since (forgotten when reset runs).
OwedHistory ==
    LET e == last'
        added == Range(syncQueue') \ Range(syncQueue)
        pulled == IF e.op \in {"syncDone", "drainDone"} /\ e.status # "error"
                  THEN {e.id} ELSE {}
    IN owed' = IF e.op = "reset" THEN {} ELSE (owed \ pulled) \cup added

\* The history variables other than the named one left alone.
OtherThan(name) ==
    /\ IF name = "want" THEN TRUE ELSE UNCHANGED want
    /\ IF name = "lastGoodSync" THEN TRUE ELSE UNCHANGED lastGoodSync
    /\ IF name = "lastAttempt" THEN TRUE ELSE UNCHANGED lastAttempt
    /\ IF name = "owed" THEN TRUE ELSE UNCHANGED owed
    /\ UNCHANGED <<feed, feedItemId>>

\* The history variables left alone.
NoHistory ==
    UNCHANGED <<want, lastGoodSync, lastAttempt, owed, feed, feedItemId>>

\* One handler runs.
Next ==
    \/ CreateReadItemsStore /\ NoHistory
    \/ Tick /\ NoHistory
    \/ \E itemId \in Ids : MarkRead(itemId) /\ NoHistory
    \/ \E itemId \in Ids : MarkUnread(itemId) /\ NoHistory
    \/ \E t \in InFlight, resp \in Responses : MarkReadDone(t, resp) /\ NoHistory
    \/ \E t \in InFlight, resp \in Responses : MarkUnreadDone(t, resp) /\ NoHistory
    \/ \E itemId \in Ids : Sync(itemId) /\ NoHistory
    \/ TimerFire /\ NoHistory
    \/ SyncAll /\ NoHistory
    \/ \E t \in InFlight, resp \in Responses : SyncWithBackendDone(t, resp) /\ NoHistory
    \/ Reset /\ NoHistory

\* One handler runs and the history of marks is recorded.
NextMarks ==
    \/ CreateReadItemsStore /\ MarkHistory /\ OtherThan("want")
    \/ Tick /\ MarkHistory /\ OtherThan("want")
    \/ \E itemId \in Ids : MarkRead(itemId) /\ MarkHistory /\ OtherThan("want")
    \/ \E itemId \in Ids : MarkUnread(itemId) /\ MarkHistory /\ OtherThan("want")
    \/ \E t \in InFlight, resp \in Responses : MarkReadDone(t, resp) /\ MarkHistory /\ OtherThan("want")
    \/ \E t \in InFlight, resp \in Responses : MarkUnreadDone(t, resp) /\ MarkHistory /\ OtherThan("want")
    \/ \E itemId \in Ids : Sync(itemId) /\ MarkHistory /\ OtherThan("want")
    \/ TimerFire /\ MarkHistory /\ OtherThan("want")
    \/ SyncAll /\ MarkHistory /\ OtherThan("want")
    \/ \E t \in InFlight, resp \in Responses : SyncWithBackendDone(t, resp) /\ MarkHistory /\ OtherThan("want")
    \/ Reset /\ MarkHistory /\ OtherThan("want")

\* One handler runs and the history of sync() calls is recorded.
NextSyncs ==
    \/ CreateReadItemsStore /\ SyncHistory /\ OtherThan("lastGoodSync")
    \/ Tick /\ SyncHistory /\ OtherThan("lastGoodSync")
    \/ \E itemId \in Ids : MarkRead(itemId) /\ SyncHistory /\ OtherThan("lastGoodSync")
    \/ \E itemId \in Ids : MarkUnread(itemId) /\ SyncHistory /\ OtherThan("lastGoodSync")
    \/ \E t \in InFlight, resp \in Responses : MarkReadDone(t, resp) /\ SyncHistory /\ OtherThan("lastGoodSync")
    \/ \E t \in InFlight, resp \in Responses : MarkUnreadDone(t, resp) /\ SyncHistory /\ OtherThan("lastGoodSync")
    \/ \E itemId \in Ids : Sync(itemId) /\ SyncHistory /\ OtherThan("lastGoodSync")
    \/ TimerFire /\ SyncHistory /\ OtherThan("lastGoodSync")
    \/ SyncAll /\ SyncHistory /\ OtherThan("lastGoodSync")
    \/ \E t \in InFlight, resp \in Responses : SyncWithBackendDone(t, resp) /\ SyncHistory /\ OtherThan("lastGoodSync")
    \/ Reset /\ SyncHistory /\ OtherThan("lastGoodSync")

\* One handler runs and the end of each answered request is recorded.
NextAttempts ==
    \/ CreateReadItemsStore /\ AttemptHistory /\ OtherThan("lastAttempt")
    \/ Tick /\ AttemptHistory /\ OtherThan("lastAttempt")
    \/ \E itemId \in Ids : MarkRead(itemId) /\ AttemptHistory /\ OtherThan("lastAttempt")
    \/ \E itemId \in Ids : MarkUnread(itemId) /\ AttemptHistory /\ OtherThan("lastAttempt")
    \/ \E t \in InFlight, resp \in Responses : MarkReadDone(t, resp) /\ AttemptHistory /\ OtherThan("lastAttempt")
    \/ \E t \in InFlight, resp \in Responses : MarkUnreadDone(t, resp) /\ AttemptHistory /\ OtherThan("lastAttempt")
    \/ \E itemId \in Ids : Sync(itemId) /\ AttemptHistory /\ OtherThan("lastAttempt")
    \/ TimerFire /\ AttemptHistory /\ OtherThan("lastAttempt")
    \/ SyncAll /\ AttemptHistory /\ OtherThan("lastAttempt")
    \/ \E t \in InFlight, resp \in Responses : SyncWithBackendDone(t, resp) /\ AttemptHistory /\ OtherThan("lastAttempt")
    \/ Reset /\ AttemptHistory /\ OtherThan("lastAttempt")

\* One handler runs and the ids owed a pull are recorded.
NextOwed ==
    \/ CreateReadItemsStore /\ OwedHistory /\ OtherThan("owed")
    \/ Tick /\ OwedHistory /\ OtherThan("owed")
    \/ \E itemId \in Ids : MarkRead(itemId) /\ OwedHistory /\ OtherThan("owed")
    \/ \E itemId \in Ids : MarkUnread(itemId) /\ OwedHistory /\ OtherThan("owed")
    \/ \E t \in InFlight, resp \in Responses : MarkReadDone(t, resp) /\ OwedHistory /\ OtherThan("owed")
    \/ \E t \in InFlight, resp \in Responses : MarkUnreadDone(t, resp) /\ OwedHistory /\ OtherThan("owed")
    \/ \E itemId \in Ids : Sync(itemId) /\ OwedHistory /\ OtherThan("owed")
    \/ TimerFire /\ OwedHistory /\ OtherThan("owed")
    \/ SyncAll /\ OwedHistory /\ OtherThan("owed")
    \/ \E t \in InFlight, resp \in Responses : SyncWithBackendDone(t, resp) /\ OwedHistory /\ OtherThan("owed")
    \/ Reset /\ OwedHistory /\ OtherThan("owed")

\* The store under every order of calls and answers.
Spec == Init /\ [][Next]_vars

\* The same, with the history of marks recorded.
SpecMarks == Init /\ [][NextMarks]_vars

\* The same, with the history of sync() calls recorded.
SpecSyncs == Init /\ [][NextSyncs]_vars

\* The same, with the end of each id's last answered request recorded.
SpecAttempts == Init /\ [][NextAttempts]_vars

\* The same, with the ids owed a pull recorded.
SpecOwed == Init /\ [][NextOwed]_vars

\* The same, constructed over every stored text.
SpecLoad == InitLoad /\ [][Next]_vars

\* getFeedItemId alone: called on a feed item, and on the items that hold the
\* same labels inserted in another order.
InitIdentity ==
    /\ now = 0
    /\ timerDue = FALSE
    /\ booted = FALSE
    /\ currentMap = <<>>
    /\ readItemsSlot = NoItems
    /\ syncTimestampSlot = NoTimestamp
    /\ syncQueue = <<>>
    /\ tasks = EmptyBag
    /\ last = Event("init", NoId, "-")
    /\ want = [i \in Ids |-> "none"]
    /\ lastGoodSync = -1
    /\ lastAttempt = [i \in Ids |-> "none"]
    /\ owed = {}
    /\ feed \in Feeds
    /\ feedItemId = NotCalled

CallGetFeedItemId ==
    /\ feedItemId' = GetFeedItemId(feed)
    /\ last' = Event("getFeedItemId", NoId, "-")
    /\ UNCHANGED <<now, timerDue, booted, currentMap, readItemsSlot,
                   syncTimestampSlot, syncQueue, tasks, want, lastGoodSync,
                   lastAttempt, owed, feed>>

\* Another item: the same id and the same pairs, inserted in another order.
Reinsert ==
    /\ \E l \in Labelings :
          /\ l # feed.labels
          /\ Range(l) = Range(feed.labels)
          /\ feed' = [feed EXCEPT !.labels = l]
    /\ last' = Event("reinsert", NoId, "-")
    /\ UNCHANGED <<now, timerDue, booted, currentMap, readItemsSlot,
                   syncTimestampSlot, syncQueue, tasks, want, lastGoodSync,
                   lastAttempt, owed, feedItemId>>

NextIdentity ==
    \/ CallGetFeedItemId
    \/ Reinsert

SpecIdentity == InitIdentity /\ [][NextIdentity]_vars

----------------------------------------------------------------------------
\* The claims.

\* The variables of the store and its environment, the history variables
\* want and lastGoodSync left out.
storeVars ==
    <<now, timerDue, booted, currentMap, readItemsSlot, syncTimestampSlot,
      syncQueue, tasks, last>>

PushOps == {"markRead", "markUnread"}

\* A task of the given kind for itemId was suspended by this step.
Issued(ops, itemId) ==
    \E t \in BagToSet(tasks') :
        /\ t.op \in ops
        /\ t.id = itemId
        /\ CopiesIn(t, tasks') > CopiesIn(t, tasks)

\* itemId waits for a retry: in syncQueue, or in the snapshot of a drain that
\* has not handled it yet.
Pending(itemId) ==
    \/ InQueue(itemId)
    \/ \E t \in InFlight :
          t.op = "drain" /\ (t.id = itemId \/ itemId \in Range(t.items))

\* C1: for every id whose history is one of marks only, once no push of the
\* id is in flight, none has failed and the latest push was confirmed, the id
\* is read exactly when the latest mark asked for read.
C1_LatestMarkWins ==
    \A id \in Ids :
        ( /\ want[id] \in {"read", "unread"}
          /\ ~\E t \in InFlight : t.op \in PushOps /\ t.id = id )
        => (Has(currentMap, id) <=> want[id] = "read")

\* C2: a drain issues a GET for every id of its snapshot: for the first id
\* when it starts, and for the next id after each GET it has handled.
C2_DrainPullsEveryId ==
    [][ /\ (last'.op \in {"timer", "syncAll"} /\ syncQueue # <<>>)
            => Issued({"drain"}, Head(syncQueue))
        /\ (last'.op = "drainDone" /\ Resumed.items # <<>>)
            => Issued({"drain"}, Head(Resumed.items)) ]_vars

\* C3: an id that waits for a retry stops waiting only when reset runs or
\* when a GET for that id has been answered.
C3_NoPendingIdLost ==
    [][ \A id \in Ids :
          (Pending(id) /\ ~Pending(id)')
          => \/ last'.op = "reset"
             \/ /\ last'.op \in {"syncDone", "drainDone"}
                /\ last'.id = id
                /\ last'.status # "error" ]_vars

\* C4 as stated, for a second call that starts while the first call's GET is
\* in flight: a sync(id) call issues no GET while a sync(id) call that
\* started at most one interval earlier still awaits its own.
C4_TwoSyncsOnePull ==
    [][ (last'.op = "sync" /\ Issued({"sync"}, last'.id))
        => ~\E t \in InFlight : /\ t.op = "sync"
                                /\ t.id = last'.id
                                /\ now - t.start <= SYNC_INTERVAL ]_vars

\* C4 amended: a sync() call issues no GET when it starts within one interval
\* of the start of a sync() call whose GET has been answered, reset not
\* having run since.
C4_SyncThrottledAfterSuccess ==
    [][ (last'.op = "sync" /\ Issued({"sync"}, last'.id))
        => (lastGoodSync = -1 \/ now - lastGoodSync > SYNC_INTERVAL) ]_vars

\* A second sync() call, within the interval of an answered one, that issued
\* no GET.
C4_Witness ==
    /\ last.op = "sync"
    /\ lastGoodSync # -1
    /\ now - lastGoodSync <= SYNC_INTERVAL
    /\ ~\E t \in InFlight : t.op = "sync"

\* C5: the step of markRead(id) that issues the POST has put id into the map
\* and written the whole map to the read-items slot; and while a markRead of
\* id awaits its answer, a step that is no operation on id keeps id read.
C5_MarkReadIsOptimistic ==
    [][ /\ last'.op = "markRead"
            => /\ Has(currentMap', last'.id)
               /\ readItemsSlot' = StoredText("array", currentMap')
               /\ Issued({"markRead"}, last'.id)
        /\ \A id \in Ids :
              ( /\ \E t \in InFlight : t.op = "markRead" /\ t.id = id
                /\ Has(currentMap, id)
                /\ last'.id # id
                /\ last'.op # "reset" )
              => Has(currentMap', id) ]_vars

\* markRead("a") has just run on a map without "a", its POST unanswered.
C5_Witness ==
    /\ last = Event("markRead", "a", "-")
    /\ ReadAt(currentMap, "a") = now
    /\ readItemsSlot.items = currentMap
    /\ \E t \in InFlight : t.op = "markRead" /\ t.id = "a" /\ ~t.stale

\* C6: when the POST of a mark fails, the handler leaves the map and the
\* read-items slot as they were and the id is in syncQueue afterwards.
C6_FailedPushKeepsStateAndQueues ==
    [][ (last'.op \in {"markReadDone", "markUnreadDone"} /\ last'.status = "error")
        => /\ currentMap' = currentMap
           /\ readItemsSlot' = readItemsSlot
           /\ last'.id \in Range(syncQueue') ]_vars

\* The POST of markRead("a") has just failed: "a" is read and queued.
C6_Witness ==
    /\ last = Event("markReadDone", "a", "error")
    /\ Has(currentMap, "a")
    /\ InQueue("a")

\* C7: after a POST was answered with another status than the one asked for,
\* the id is unread (markRead) or read (markUnread), in the map and in the
\* map the read-items slot decodes to.
C7_RejectedPushIsRolledBack ==
    /\ (last.op = "markReadDone" /\ last.status \notin {"read", "error"})
        => /\ ~Has(currentMap, last.id)
           /\ readItemsSlot.kind = "array"
           /\ ~Has(NewMap(readItemsSlot.items), last.id)
    /\ (last.op = "markUnreadDone" /\ last.status \notin {"unread", "error"})
        => /\ Has(currentMap, last.id)
           /\ readItemsSlot.kind = "array"
           /\ Has(NewMap(readItemsSlot.items), last.id)

\* markUnread("a") was answered 'read' and "a" is read again.
C7_Witness ==
    /\ last = Event("markUnreadDone", "a", "read")
    /\ Has(currentMap, "a")
    /\ Has(NewMap(readItemsSlot.items), "a")

\* C8: right after reset() the map is empty, both slots are absent and
\* syncQueue is empty, and another reset() changes nothing.
C8_ResetClearsEverything ==
    last.op = "reset"
    => /\ currentMap = <<>>
       /\ \A id \in Ids : ~Has(currentMap, id)
       /\ ~readItemsSlot.present
       /\ ~syncTimestampSlot.present
       /\ syncQueue = <<>>
       /\ ~ENABLED (Reset /\ storeVars' # storeVars)

\* reset() has run with an operation in flight and the clock advanced.
C8_Witness ==
    /\ last.op = "reset"
    /\ tasks # EmptyBag
    /\ now > 0

C10_LoadDiscardsMalformed ==
    [][ last'.op = "load"
        => IF readItemsSlot.present /\ ~IsPairArray(readItemsSlot)
           THEN currentMap' = <<>> /\ ~readItemsSlot'.present
           ELSE readItemsSlot.present
                => /\ currentMap' = readItemsSlot.items
                   /\ readItemsSlot' = readItemsSlot ]_vars

\* C11: the id getFeedItemId returned for an item is the id it returns for
\* every item with the same backend id and the same label pairs, whatever the
\* order they were inserted in; with a backend id it is that id's decimal
\* string, and without one the hash of the pairs joined in key order.
C11_IdentityIsOrderIndependent ==
    feedItemId # NotCalled
    => /\ feedItemId = GetFeedItemId(feed)
       /\ feed.id # Undefined => feedItemId = NumberToString(feed.id)
       /\ \A l \in Labelings :
             Range(l) = Range(feed.labels)
             => GetFeedItemId([feed EXCEPT !.labels = l]) = feedItemId

\* The id was derived from labels {a: "x", b: ""} in one order and the item
\* now holds them in the other.
C11_Witness ==
    /\ last.op = "reinsert"
    /\ feed.id = Undefined
    /\ feed.labels = << <<(<<98>>), <<>> >>, <<(<<97>>), <<120>> >> >>
    /\ feedItemId # NotCalled

\* C12: for every id in syncQueue, the request for that id that was answered
\* last (a POST or a GET) did not succeed.
C12_QueuedMeansLastAttemptFailed ==
    \A id \in Ids : InQueue(id) => lastAttempt[id] = "failed"

\* C13: when nothing is queued and no request is in flight, so that no later
\* drain has anything to pull, no id that was queued is still owed a
\* successful pull.
C13_QuiescentOwesNothing ==
    (syncQueue = <<>> /\ tasks = EmptyBag) => owed = {}

\* The read-items slot decodes to the map, or is absent with the map empty.
Mirrors(slot, map) ==
    IF slot.present
    THEN IsPairArray(slot) /\ NewMap(slot.items) = map
    ELSE map = <<>>

\* C14: after every step of the constructed store the read-items slot, when
\* present, decodes to exactly the map, and when absent the map is empty; and
\* a step that writes the slot writes the whole map.
C14_PersistenceMirrorsMemory ==
    [][ booted'
        => /\ Mirrors(readItemsSlot', currentMap')
           /\ (readItemsSlot' # readItemsSlot /\ readItemsSlot'.present)
               => readItemsSlot' = StoredText("array", currentMap') ]_vars

\* C15: a sync(id) call issues a GET exactly when the sync timestamp is
\* absent or at least SYNC_INTERVAL has elapsed since it; the call itself
\* changes neither the map, syncQueue nor the timestamp; and the timestamp is
\* written only by the handling of an answered GET.
C15_SyncPullsFromTheInterval ==
    [][ /\ last'.op = "sync"
            => /\ Issued({"sync"}, last'.id)
                   <=> \/ ~syncTimestampSlot.present
                       \/ now - Number(syncTimestampSlot.text) >= SYNC_INTERVAL
               /\ UNCHANGED <<currentMap, syncQueue, syncTimestampSlot>>
        /\ (syncTimestampSlot' # syncTimestampSlot /\ syncTimestampSlot'.present)
            => /\ last'.op \in {"syncDone", "drainDone"}
               /\ last'.status # "error" ]_vars

PushDoneOps == {"markReadDone", "markUnreadDone"}

\* C16: handling a POST that was answered with another status than the one
\* asked for leaves syncQueue as it was.
C16_RejectedPushQueuesNothing ==
    [][ ( /\ last'.op \in PushDoneOps
          /\ last'.status # "error"
          /\ last'.status # (IF last'.op = "markReadDone" THEN "read" ELSE "unread") )
        => syncQueue' = syncQueue ]_vars

\* markUnread("a") was answered 'deleted' and "a" is not queued.
C16_Witness ==
    /\ last = Event("markUnreadDone", "a", "deleted")
    /\ ~InQueue("a")

\* C20: a mark, the handling of its answer and the handling of an answered
\* GET leave the timestamp of every other id as it was; markRead of an id
\* that is read and markUnread of an id that is unread leave the map as it
\* was; and a mark and the handling of its answer leave the sync timestamp
\* as it was.
C20_LocalChangeTouchesOneId ==
    [][ /\ last'.op \in PushOps \cup PushDoneOps \cup {"syncDone", "drainDone"}
            => \A id \in Ids \ {last'.id} :
                  ReadAt(currentMap', id) = ReadAt(currentMap, id)
        /\ (last'.op = "markRead" /\ Has(currentMap, last'.id))
            => currentMap' = currentMap
        /\ (last'.op = "markUnread" /\ ~Has(currentMap, last'.id))
            => currentMap' = currentMap
        /\ last'.op \in PushOps \cup PushDoneOps
            => syncTimestampSlot' = syncTimestampSlot ]_vars

\* markRead("a") has just run on a map that held "a" from an earlier time,
\* next to "b", with a sync timestamp stored.
C20_Witness ==
    /\ last = Event("markRead", "a", "-")
    /\ ReadAt(currentMap, "a") # -1
    /\ ReadAt(currentMap, "a") < now
    /\ Has(currentMap, "b")
    /\ syncTimestampSlot.present

DoneOps == PushDoneOps \cup {"syncDone", "drainDone"}

\* The map, both slots and syncQueue are empty or absent.
Cleared ==
    /\ currentMap = <<>>
    /\ ~readItemsSlot.present
    /\ ~syncTimestampSlot.present
    /\ syncQueue = <<>>

\* The answer handled is the confirmation of a POST.
Confirmed(e) ==
    \/ e.op = "markReadDone" /\ e.status = "read"
    \/ e.op = "markUnreadDone" /\ e.status = "unread"

C18_PullKeepsLaterMark ==
    [][ ( /\ last'.op \in {"syncDone", "drainDone"}
          /\ Resumed.stale
          /\ want[last'.id] \in {"read", "unread"}
          /\ ~\E t \in InFlight : t.op \in PushOps /\ t.id = last'.id )
        => (Has(currentMap', last'.id) <=> want[last'.id] = "read") ]_vars

\* C19: while a drain is in flight, an id in syncQueue (added after that
\* drain took its snapshot) stops waiting for a retry only when reset runs
\* or a GET for that id has been answered.
C19_QueuedDuringDrainSurvives ==
    [][ \A id \in Ids :
          ( /\ \E t \in InFlight : t.op = "drain"
            /\ InQueue(id)
            /\ ~Pending(id)' )
          => \/ last'.op = "reset"
             \/ /\ last'.op \in {"syncDone", "drainDone"}
                /\ last'.id = id
                /\ last'.status # "error" ]_vars

====
